---- MODULE Spec2Model ----
(***************************************************************************)
(* Model of bipy/toolbox/fastqc.py:                                        *)
(*   detect_fastq_format            (SpecDetect)                           *)
(*   FastQCParser._fastqc_data_section (SpecSection)                       *)
(*   FastQCParser._splitseq         (SpecSplit)                            *)
(* Characters are ASCII ordinals; a line of a file is the sequence of its  *)
(* characters, terminator included, as Python's file iteration yields it.  *)
(***************************************************************************)
EXTENDS Integers, Sequences, FiniteSets, TLC

VARIABLES
    \* ---- detect_fastq_format ----
    d_pc,           \* "loop": at the for-line header; "chars": inside for c in line; "done"
    MAX_RECORDS,    \* the cap argument
    kept,           \* the list kept (line 28)
    formatsBound,   \* whether the local name formats is bound (it aliases kept, line 38)
    i,              \* number of lines fetched so far; the current line has index i - 1
    records_read,   \* line 30 / 36
    line,           \* characters of the current quality line not yet iterated
    eofNext,        \* the line just fetched had no newline: it was the file's last
    d_outcome,      \* "none" | "returned" | "error" (UnboundLocalError at line 46)
    d_result,       \* the returned list
    seen,           \* history: ordinals on which the removal loop has run
    seenQual,       \* history: those of seen that are not line terminators
    exLines,        \* history: indices of the lines a character of which was examined
    nExamined,      \* history: number of characters examined
    \* ---- FastQCParser._fastqc_data_section ----
    s_pc,           \* "scan": in the for-line loop; "done": returned
    s_exists,       \* os.path.exists(data_file)
    section_name,   \* the argument
    s_file,         \* the lines of fastqc_data.txt, each a sequence of tokens
    s_pos,          \* number of lines the loop has consumed
    in_section,     \* line 153
    out,            \* line 152
    \* ---- FastQCParser._splitseq ----
    w_pc,           \* "loop": in for s in seq; "done": returned
    seq,            \* the argument, a sequence of characters
    w_pos,          \* number of characters the loop has consumed
    pieces,         \* line 141
    cur_piece,      \* line 142
    w_result        \* the returned string

dvars == <<d_pc, MAX_RECORDS, kept, formatsBound, i, records_read, line, eofNext,
           d_outcome, d_result, seen, seenQual, exLines, nExamined>>

svars == <<s_pc, s_exists, section_name, s_file, s_pos, in_section, out>>

wvars == <<w_pc, seq, w_pos, pieces, cur_piece, w_result>>

vars == <<dvars, svars, wvars>>

-----------------------------------------------------------------------------
(* Bounds of the model *)
MaxLines == 8       \* lines of a FASTQ file
MaxCap == 2         \* largest MAX_RECORDS tried
MaxQualLen == 2     \* characters of a quality line, terminator excluded
MaxFileLines == 4   \* lines of fastqc_data.txt
MaxSeqLen == 91     \* characters of a sequence given to _splitseq

-----------------------------------------------------------------------------
(* _FASTQ_RANGES *)
SchemeNames == {"sanger", "solexa", "illumina_1.3+", "illumina_1.5+", "illumina_1.8+"}

FASTQ_RANGES ==
    [f \in SchemeNames |->
        CASE f = "sanger"        -> <<33, 73>>
          [] f = "solexa"        -> <<59, 104>>
          [] f = "illumina_1.3+" -> <<64, 104>>
          [] f = "illumina_1.5+" -> <<66, 104>>
          [] f = "illumina_1.8+" -> <<33, 74>>]

\* list(_FASTQ_RANGES.keys()): the order of a dict's keys is not fixed by the
\* language the module is written for; every order is possible.
KeyOrders ==
    {s \in [1..Cardinality(SchemeNames) -> SchemeNames] :
        \A a, b \in 1..Cardinality(SchemeNames) : a # b => s[a] # s[b]}

\* Ordinals of the characters a quality line is drawn from: '!' (sanger and
\* illumina_1.8+ only), 'F' (every scheme), 'J' (every scheme but sanger) and
\* 'x' (no scheme).
QualOrds == {33, 70, 74, 120}
LF == 10
CR == 13
Terminators == {<<>>, <<LF>>, <<CR, LF>>}

RECURSIVE SeqsUpTo(_, _)
SeqsUpTo(S, n) ==
    IF n = 0 THEN {<<>>}
    ELSE LET shorter == SeqsUpTo(S, n - 1)
         IN  shorter \cup {Append(s, x) : s \in {t \in shorter : Len(t) = n - 1}, x \in S}

\* The lines a file iteration can yield: never empty, a newline only at the end.
QualityLines ==
    {b \o t : b \in SeqsUpTo(QualOrds, MaxQualLen), t \in Terminators} \ {<<>>}

HasNewline(l) == Len(l) > 0 /\ l[Len(l)] = LF

-----------------------------------------------------------------------------
(* Helpers of detect_fastq_format *)

\* line 42-43
OutOfRangeLow(form, o) == FASTQ_RANGES[form][1] >= o \/ FASTQ_RANGES[form][2] < o
OutOfRange(form, o) == FASTQ_RANGES[form][1] > o \/ FASTQ_RANGES[form][2] < o

\* list.remove(x): drops the first occurrence of x
ListRemove(lst, x) ==
    LET k == CHOOSE k \in 1..Len(lst) : lst[k] = x /\ \A j \in 1..(k - 1) : lst[j] # x
    IN  [j \in 1..(Len(lst) - 1) |-> IF j < k THEN lst[j] ELSE lst[j + 1]]

\* lines 41-44: "for form in formats: ... kept.remove(form)" where formats is
\* kept. The list iterator holds an index into the list being shrunk, so the
\* element that slides into a removed element's place is passed over.
RemoveLoopCopy(lst, idx, o) == SelectSeq(lst, LAMBDA f : ~OutOfRange(f, o))
RECURSIVE RemoveLoop(_, _, _)
RemoveLoop(lst, idx, o) ==
    IF idx > Len(lst) THEN lst
    ELSE IF OutOfRange(lst[idx], o)
         THEN RemoveLoop(ListRemove(lst, lst[idx]), idx + 1, o)
         ELSE RemoveLoop(lst, idx + 1, o)

\* line 39
ShortCircuitNever(formats) == FALSE
ShortCircuit(formats) == Len(formats) = 1

\* line 33
CapReachedLate(n, cap) == n > cap
CapReached(n, cap) == n >= cap

\* line 35, for the line of index k
IsQualityLine(k) == k % 4 = 3

-----------------------------------------------------------------------------
(* detect_fastq_format *)

DetectStart ==
    /\ d_pc = "loop"
    /\ MAX_RECORDS \in 0..MaxCap
    /\ kept \in KeyOrders
    /\ formatsBound = FALSE
    /\ i = 0
    /\ records_read = 0
    /\ line = <<>>
    /\ eofNext = FALSE
    /\ d_outcome = "none"
    /\ d_result = <<>>
    /\ seen = {}
    /\ seenQual = {}
    /\ exLines = {}
    /\ nExamined = 0

DetectIdle ==
    /\ d_pc = "idle"
    /\ MAX_RECORDS = 0
    /\ kept = <<"sanger">>
    /\ formatsBound = FALSE
    /\ i = 0
    /\ records_read = 0
    /\ line = <<>>
    /\ eofNext = FALSE
    /\ d_outcome = "none"
    /\ d_result = <<>>
    /\ seen = {}
    /\ seenQual = {}
    /\ exLines = {}
    /\ nExamined = 0

SectionIdle ==
    /\ s_pc = "idle"
    /\ s_exists = FALSE
    /\ section_name = ""
    /\ s_file = <<>>
    /\ s_pos = 0
    /\ in_section = FALSE
    /\ out = <<>>

SplitIdle ==
    /\ w_pc = "idle"
    /\ seq = <<>>
    /\ w_pos = 0
    /\ pieces = <<>>
    /\ cur_piece = <<>>
    /\ w_result = <<>>

DetectInit == DetectStart /\ SectionIdle /\ SplitIdle

\* line 46, reached by break or by the end of the file
ReturnAfterLoop ==
    /\ d_pc' = "done"
    /\ IF formatsBound
       THEN d_outcome' = "returned" /\ d_result' = kept
       ELSE d_outcome' = "error" /\ d_result' = <<>>

MoreLines == ~eofNext /\ i < MaxLines

\* lines 31-34: a line is fetched and the cap is reached: break
CapBreak ==
    /\ d_pc = "loop"
    /\ MoreLines
    /\ CapReached(records_read, MAX_RECORDS)
    /\ ReturnAfterLoop
    /\ i' = i + 1
    /\ UNCHANGED <<svars, wvars>>
    /\ UNCHANGED <<MAX_RECORDS, kept, formatsBound, records_read, line, eofNext,
                   seen, seenQual, exLines, nExamined>>

\* lines 31-35: a line that is not a quality line
ReadOtherLine ==
    /\ d_pc = "loop"
    /\ MoreLines
    /\ ~CapReached(records_read, MAX_RECORDS)
    /\ ~IsQualityLine(i)
    /\ i' = i + 1
    /\ \E nl \in BOOLEAN : eofNext' = ~nl
    /\ UNCHANGED <<svars, wvars>>
    /\ UNCHANGED <<d_pc, MAX_RECORDS, kept, formatsBound, records_read, line,
                   d_outcome, d_result, seen, seenQual, exLines, nExamined>>

\* lines 31-36: a quality line
ReadQualityLine ==
    /\ d_pc = "loop"
    /\ MoreLines
    /\ ~CapReached(records_read, MAX_RECORDS)
    /\ IsQualityLine(i)
    /\ i' = i + 1
    /\ records_read' = records_read + 1
    /\ \E l \in QualityLines :
          /\ line' = l
          /\ eofNext' = ~HasNewline(l)
    /\ d_pc' = "chars"
    /\ UNCHANGED <<svars, wvars>>
    /\ UNCHANGED <<MAX_RECORDS, kept, formatsBound, d_outcome, d_result,
                   seen, seenQual, exLines, nExamined>>

\* lines 37-40: the next character finds one format left: return formats
ShortCircuitReturn ==
    /\ d_pc = "chars"
    /\ ShortCircuit(kept)
    /\ d_pc' = "done"
    /\ formatsBound' = TRUE
    /\ d_outcome' = "returned"
    /\ d_result' = kept
    /\ UNCHANGED <<svars, wvars>>
    /\ UNCHANGED <<MAX_RECORDS, kept, i, records_read, line, eofNext,
                   seen, seenQual, exLines, nExamined>>

\* lines 37-44: one character of the quality line
ProcessChar ==
    /\ d_pc = "chars"
    /\ ~ShortCircuit(kept)
    /\ formatsBound' = TRUE
    /\ kept' = RemoveLoop(kept, 1, Head(line))
    /\ line' = Tail(line)
    /\ d_pc' = IF Tail(line) = <<>> THEN "loop" ELSE "chars"
    /\ seen' = seen \cup {Head(line)}
    /\ seenQual' = seenQual \cup ({Head(line)} \ {LF, CR})
    /\ exLines' = exLines \cup {i - 1}
    /\ nExamined' = nExamined + 1
    /\ UNCHANGED <<svars, wvars>>
    /\ UNCHANGED <<MAX_RECORDS, i, records_read, eofNext, d_outcome, d_result>>

\* line 31: the file has no more lines
EndOfFile ==
    /\ d_pc = "loop"
    /\ ReturnAfterLoop
    /\ UNCHANGED <<svars, wvars>>
    /\ UNCHANGED <<MAX_RECORDS, kept, formatsBound, i, records_read, line, eofNext,
                   seen, seenQual, exLines, nExamined>>

DetectNext ==
    \/ CapBreak
    \/ ReadOtherLine
    \/ ReadQualityLine
    \/ ShortCircuitReturn
    \/ ProcessChar
    \/ EndOfFile

SpecDetect == DetectInit /\ [][DetectNext]_vars

\* The call runs to its end: the interpreter executes the next statement and
\* the file iteration yields the next line or stops.
SpecDetectFair == SpecDetect /\ WF_vars(DetectNext)

-----------------------------------------------------------------------------
(* Properties of detect_fastq_format *)

Range(s) == {s[k] : k \in DOMAIN s}

\* the schemes whose [min, max] range contains every ordinal of S
Compatible(S) ==
    {f \in SchemeNames :
        \A o \in S : FASTQ_RANGES[f][1] <= o /\ o <= FASTQ_RANGES[f][2]}

\* C1: the returned list is exactly the set of registry schemes whose range
\* contains every quality character processed before the return.
C1_ReturnsExactlyCompatible ==
    (MAX_RECORDS >= 1 /\ d_outcome = "returned")
        => Range(d_result) = Compatible(seenQual)

\* C2: when a processed quality character lies outside every scheme's range,
\* the call ends with the explicit outcome EncodingUndetermined, not with a
\* list of scheme names and not with an empty collection.
C2_UndeterminedReported ==
    (d_pc = "done" /\ \E o \in seenQual : Compatible({o}) = {})
        => d_outcome = "EncodingUndetermined"

\* C3: the call never ends by raising an error, whatever the file and the cap;
\* the name returned after the loop is always bound.
C3_NeverCrashes == d_outcome # "error"

\* C7: once the candidate list has exactly one member, no further character
\* is examined, no scheme is removed, and the call eventually returns that
\* one-element list.
C7_ShortCircuit ==
    /\ [][Len(kept) = 1 =>
          /\ kept' = kept
          /\ nExamined' = nExamined
          /\ seen' = seen
          /\ d_outcome' # "error"
          /\ (d_pc' = "done" => d_outcome' = "returned" /\ d_result' = kept)]_vars
    /\ ((Len(kept) = 1) ~> (d_outcome = "returned" /\ d_result = kept))

\* C7 witness: the call returned a singleton while characters of the current
\* quality line were still unexamined.
C7_Witness ==
    /\ d_outcome = "returned"
    /\ Len(d_result) = 1
    /\ line # <<>>
    /\ nExamined > 0

\* C8: the quality lines whose characters are examined number at most
\* MAX_RECORDS, they are all at position 3 of a 4-line group, only an examined
\* character changes the candidate list, and once the cap is reached or the
\* call has ended the list does not change again.
C8_RecordCap ==
    [][/\ Cardinality(exLines') <= MAX_RECORDS
       /\ \A k \in exLines' : k % 4 = 3
       /\ (kept' # kept => nExamined' = nExamined + 1 /\ (i - 1) \in exLines')
       /\ ((d_pc = "loop" /\ records_read >= MAX_RECORDS) \/ d_pc = "done"
             => kept' = kept /\ exLines' = exLines /\ nExamined' = nExamined)]_vars

\* C8 witness: the cap was reached with a further line in the file, and the
\* call returned after examining exactly MAX_RECORDS quality lines.
C8_Witness ==
    /\ d_outcome = "returned"
    /\ MAX_RECORDS >= 1
    /\ Cardinality(exLines) = MAX_RECORDS
    /\ i = 4 * MAX_RECORDS + 1

C10_NeverEmpty ==
    /\ Len(kept) >= 1
    /\ (d_outcome = "returned" => Len(d_result) >= 1)

\* C10 witness: a return after a quality character outside every range.
C10_Witness ==
    /\ d_outcome = "returned"
    /\ \E o \in seenQual : Compatible({o}) = {}
    /\ Len(d_result) >= 1

-----------------------------------------------------------------------------
(* FastQCParser._fastqc_data_section *)

\* A line of fastqc_data.txt is a sequence of tokens; a token is a string
\* that the prefix tests of the parser never look inside.
GT2 == ">>"
END == "END"
SectionNames == {"Basic Statistics", "END"}

\* Line bodies, the newline excluded: data, a data line ending in a carriage
\* return, a blank line, ">>END_MODULE", ">>Basic Statistics<tab>pass", the
\* start of another section, and markers that are not at the line's start.
Bodies ==
    { <<"x">>,
      <<"x", "\r">>,
      <<>>,
      <<GT2, END, "x">>,
      <<GT2, "Basic Statistics", "x">>,
      <<GT2, "x">>,
      <<"Basic Statistics">>,
      <<"x", GT2, END>> }

TerminatedLines == {Append(b, "\n") : b \in Bodies}
LastLines == TerminatedLines \cup (Bodies \ {<<>>})

\* The files of at most n lines: only the last line may lack its newline.
Files(n) ==
    {<<>>} \cup
    UNION {{Append(h, l) : h \in [1..(m - 1) -> TerminatedLines], l \in LastLines} :
           m \in 1..n}

\* str.startswith
StartsWith(l, p) == Len(l) >= Len(p) /\ SubSeq(l, 1, Len(p)) = p

\* line 158: line.startswith(">>%s" % section_name)
IsStartLineAny(l, name) == StartsWith(l, <<GT2>>)
IsStartLine(l, name) == StartsWith(l, <<GT2, name>>)

\* line 161: line.startswith(">>END")
IsEndLine(l) == StartsWith(l, <<GT2, END>>)

\* line 163: line.rstrip("\r\n") drops every trailing "\r" and "\n"
RStripOne(l) ==
    IF Len(l) > 0 /\ l[Len(l)] \in {"\r", "\n"} THEN SubSeq(l, 1, Len(l) - 1) ELSE l
RECURSIVE RStrip(_)
RStrip(l) ==
    IF Len(l) > 0 /\ l[Len(l)] \in {"\r", "\n"}
    THEN RStrip(SubSeq(l, 1, Len(l) - 1))
    ELSE l

SectionStart ==
    /\ s_pc = "scan"
    /\ s_exists \in BOOLEAN
    /\ section_name \in SectionNames
    /\ s_file \in IF s_exists THEN Files(MaxFileLines) ELSE {<<>>}
    /\ s_pos = 0
    /\ in_section = FALSE
    /\ out = <<>>

SectionInit == SectionStart /\ DetectIdle /\ SplitIdle

\* lines 155, 164: the data file does not exist
SecFileMissing ==
    /\ s_pc = "scan"
    /\ ~s_exists
    /\ s_pc' = "done"
    /\ UNCHANGED <<s_exists, section_name, s_file, s_pos, in_section, out>>
    /\ UNCHANGED <<dvars, wvars>>

SecHasLine == s_pc = "scan" /\ s_exists /\ s_pos < Len(s_file)
SecLine == s_file[s_pos + 1]

\* lines 157-159: the start marker
SecStartLine ==
    /\ SecHasLine
    /\ IsStartLine(SecLine, section_name)
    /\ in_section' = TRUE
    /\ s_pos' = s_pos + 1
    /\ UNCHANGED <<s_pc, s_exists, section_name, s_file, out>>
    /\ UNCHANGED <<dvars, wvars>>

\* lines 157-158, 160: a line before the section
SecSkipLine ==
    /\ SecHasLine
    /\ ~IsStartLine(SecLine, section_name)
    /\ ~in_section
    /\ s_pos' = s_pos + 1
    /\ UNCHANGED <<s_pc, s_exists, section_name, s_file, in_section, out>>
    /\ UNCHANGED <<dvars, wvars>>

\* lines 160-162, 164: the end marker inside the section: break and return
SecEndLine ==
    /\ SecHasLine
    /\ ~IsStartLine(SecLine, section_name)
    /\ in_section
    /\ IsEndLine(SecLine)
    /\ s_pos' = s_pos + 1
    /\ s_pc' = "done"
    /\ UNCHANGED <<s_exists, section_name, s_file, in_section, out>>
    /\ UNCHANGED <<dvars, wvars>>

\* lines 160-163: a line of the section
SecAppendLine ==
    /\ SecHasLine
    /\ ~IsStartLine(SecLine, section_name)
    /\ in_section
    /\ ~IsEndLine(SecLine)
    /\ out' = Append(out, RStrip(SecLine))
    /\ s_pos' = s_pos + 1
    /\ UNCHANGED <<s_pc, s_exists, section_name, s_file, in_section>>
    /\ UNCHANGED <<dvars, wvars>>

\* lines 157, 164: the file is exhausted
SecEndOfFile ==
    /\ s_pc = "scan"
    /\ s_exists
    /\ s_pos = Len(s_file)
    /\ s_pc' = "done"
    /\ UNCHANGED <<s_exists, section_name, s_file, s_pos, in_section, out>>
    /\ UNCHANGED <<dvars, wvars>>

SectionNext ==
    \/ SecFileMissing
    \/ SecStartLine
    \/ SecSkipLine
    \/ SecEndLine
    \/ SecAppendLine
    \/ SecEndOfFile

SpecSection == SectionInit /\ [][SectionNext]_vars

-----------------------------------------------------------------------------
(* Properties of _fastqc_data_section *)

\* the line begins with the two characters ">>" followed by the name
BeginsWithMarker(l, name) == Len(l) >= 2 /\ l[1] = ">>" /\ l[2] = name

StartIndexes == {k \in 1..Len(s_file) : BeginsWithMarker(s_file[k], section_name)}

SetMin(S) == CHOOSE m \in S : \A n \in S : m <= n

\* the line with its trailing line terminators taken off: its longest prefix
\* that does not end in a carriage return or a newline
Stripped(l) ==
    LET n == CHOOSE n \in 0..Len(l) :
                 /\ \A k \in (n + 1)..Len(l) : l[k] \in {"\r", "\n"}
                 /\ (n > 0 => l[n] \notin {"\r", "\n"})
    IN  SubSeq(l, 1, n)

\* C4: the lookup of a section gives the empty sequence when the data file is
\* absent or holds no line beginning with ">>" followed by the name.
C4_AbsentSectionEmpty ==
    (s_pc = "done" /\ (~s_exists \/ StartIndexes = {})) => out = <<>>

\* C4 witness: a lookup has returned on a file that holds data lines, another
\* section and a ">>END" line, but not the section asked for.
C4_Witness ==
    /\ s_pc = "done"
    /\ s_exists
    /\ StartIndexes = {}
    /\ \E k \in 1..Len(s_file) : BeginsWithMarker(s_file[k], END)
    /\ \E k \in 1..Len(s_file) : s_file[k][1] = "x"
    /\ out = <<>>

C5_First == SetMin(StartIndexes)

\* C5: when the file holds the section, the result is exactly every line after
\* the first start marker, up to but excluding the first later line beginning
\* with ">>END" (or up to the end of the file), in order, terminators stripped.
C5_EndsOriginal ==
    {k \in (C5_First + 1)..Len(s_file) : BeginsWithMarker(s_file[k], END)}
C5_StopOriginal ==
    IF C5_EndsOriginal = {} THEN Len(s_file) + 1 ELSE SetMin(C5_EndsOriginal)
C5_SectionLinesExact ==
    (s_pc = "done" /\ s_exists /\ StartIndexes # {}) =>
        out = [k \in 1..(C5_StopOriginal - C5_First - 1) |->
                  Stripped(s_file[C5_First + k])]

\* C5 as amended: a line that itself begins with ">>" followed by the name is
\* never appended and never ends the scan; every other line after the first
\* start marker is returned, in order and stripped, up to but excluding the
\* first later line that begins with ">>END" and not with the start marker.
C5_EndsAmended ==
    {k \in C5_EndsOriginal : ~BeginsWithMarker(s_file[k], section_name)}
C5_StopAmended ==
    IF C5_EndsAmended = {} THEN Len(s_file) + 1 ELSE SetMin(C5_EndsAmended)
C5_Between ==
    SelectSeq(SubSeq(s_file, C5_First + 1, C5_StopAmended - 1),
              LAMBDA l : ~BeginsWithMarker(l, section_name))
C5_SectionLinesAmended ==
    (s_pc = "done" /\ s_exists /\ StartIndexes # {}) =>
        out = [k \in 1..Len(C5_Between) |-> Stripped(C5_Between[k])]

\* C5 witness: a lookup returned a non-empty section some line of which lost
\* a trailing terminator, from a file with a ">>END" line before the start
\* marker and one after it.
C5_Witness ==
    /\ s_pc = "done"
    /\ s_exists
    /\ StartIndexes # {}
    /\ \E k \in 1..Len(out) : out[k] # <<>> /\ out[k] # s_file[C5_First + k]
    /\ s_pos < Len(s_file)

-----------------------------------------------------------------------------
(* FastQCParser._splitseq *)

\* line 117: self._max_seq_size
max_seq_size == 45

\* The sequences tried: every length up to MaxSeqLen, the characters either
\* all the same or cycling through the alphabet (a space is a character too).
Alphabet == <<"A", "C", "G", " ">>
SeqInputs ==
    {[k \in 1..n |-> Alphabet[((k * st + off) % 4) + 1]] :
        n \in 0..MaxSeqLen, st \in {0, 1}, off \in 0..3}

\* line 144
PieceFullLate(piece) == Len(piece) > max_seq_size
PieceFull(piece) == Len(piece) >= max_seq_size

\* "".join(cur_piece) of single characters is the sequence itself;
\* line 149: " ".join(pieces)
RECURSIVE JoinSpace(_)
JoinSpace(ps) ==
    IF Len(ps) = 0 THEN <<>>
    ELSE IF Len(ps) = 1 THEN ps[1]
    ELSE ps[1] \o <<" ">> \o JoinSpace(Tail(ps))

SplitStart ==
    /\ w_pc = "loop"
    /\ seq \in SeqInputs
    /\ w_pos = 0
    /\ pieces = <<>>
    /\ cur_piece = <<>>
    /\ w_result = <<>>

SplitInit == SplitStart /\ DetectIdle /\ SectionIdle

\* lines 143-147: a character that finds the current piece full
SplitFlushChar ==
    /\ w_pc = "loop"
    /\ w_pos < Len(seq)
    /\ PieceFull(cur_piece)
    /\ pieces' = Append(pieces, cur_piece)
    /\ cur_piece' = <<seq[w_pos + 1]>>
    /\ w_pos' = w_pos + 1
    /\ UNCHANGED <<w_pc, seq, w_result>>
    /\ UNCHANGED <<dvars, svars>>

\* lines 143-144, 147: a character added to the current piece
SplitChar ==
    /\ w_pc = "loop"
    /\ w_pos < Len(seq)
    /\ ~PieceFull(cur_piece)
    /\ cur_piece' = Append(cur_piece, seq[w_pos + 1])
    /\ w_pos' = w_pos + 1
    /\ UNCHANGED <<w_pc, seq, pieces, w_result>>
    /\ UNCHANGED <<dvars, svars>>

\* lines 148-149: the last piece is added and the pieces are joined
SplitFinish ==
    /\ w_pc = "loop"
    /\ w_pos = Len(seq)
    /\ pieces' = Append(pieces, cur_piece)
    /\ w_result' = JoinSpace(pieces')
    /\ w_pc' = "done"
    /\ UNCHANGED <<seq, w_pos, cur_piece>>
    /\ UNCHANGED <<dvars, svars>>

SplitNext ==
    \/ SplitFlushChar
    \/ SplitChar
    \/ SplitFinish

SpecSplit == SplitInit /\ [][SplitNext]_vars

-----------------------------------------------------------------------------
(* Properties of _splitseq *)

RECURSIVE Concat(_)
Concat(ps) == IF Len(ps) = 0 THEN <<>> ELSE ps[1] \o Concat(Tail(ps))

\* C6: the chunks concatenate to the input; each has at most 45 characters and
\* all but the last exactly 45; for a non-empty input none is empty and there
\* are ceil(len/45) of them; the result is the chunks with exactly one space
\* between neighbours: a space at every 46th position, the input elsewhere.
C6_FieldWrapping ==
    w_pc = "done" =>
        /\ Concat(pieces) = seq
        /\ \A k \in 1..Len(pieces) : Len(pieces[k]) <= 45
        /\ \A k \in 1..(Len(pieces) - 1) : Len(pieces[k]) = 45
        /\ (Len(seq) > 0 =>
               /\ \A k \in 1..Len(pieces) : Len(pieces[k]) > 0
               /\ Len(pieces) = (Len(seq) + 44) \div 45)
        /\ Len(w_result) = Len(seq) + Len(pieces) - 1
        /\ \A p \in 1..Len(w_result) :
               IF p % 46 = 0 THEN w_result[p] = " "
               ELSE w_result[p] = seq[p - (p \div 46)]

\* C6 witness: a sequence of exactly 90 characters was wrapped into two chunks
\* with one space between them and none after.
C6_Witness ==
    /\ w_pc = "done"
    /\ Len(seq) = 90
    /\ Len(pieces) = 2
    /\ Len(w_result) = 91
    /\ w_result[46] = " "

====
